---- MODULE Spec2Model ----
(***************************************************************************)
(* Grid-trading simulation and backtesting engine.                         *)
(*                                                                         *)
(*   GridTradingSystem (src/grid_trading_system.py), mode 'simulation':    *)
(*     run_strategy -> run_simulation -> place_order -> execute_trade      *)
(*   Backtester (src/backtester.py), reached in mode 'backtest':           *)
(*     run_strategy -> run_backtest -> backtest_grid_strategy              *)
(*                                                                         *)
(* Numbers.  The program computes in binary floating point; the model      *)
(* computes in exact fixed point.  Prices are integers.  Money (cash,      *)
(* order_size, fee, cost, revenue, total_value) is held in units of        *)
(* 1/Scale of the quote currency and amounts of the base asset in units of *)
(* 1/Scale, so that price * amount is money.  Rates (fee_rate, the touch   *)
(* tolerance) are per mille.  grid_range_pct is the fraction num/den.  The *)
(* prices, order size and range used are chosen so that every division     *)
(* the program performs is exact.                  *)
(***************************************************************************)
EXTENDS Integers, Sequences, FiniteSets, TLC

VARIABLES
    mode,           \* self.mode: "simulation" or "backtest"
    params,         \* strategy_params handed to run_strategy
    data,           \* self.sim_data / the backtest DataFrame: sequence of bars
    duration_hours, \* argument of run_simulation (default 24)
    pc,             \* position of the run: "idle", "for_bar", "for_level", "done"
    i,              \* loop variable of `for i in range(...)` (0-based)
    j,              \* number of grid levels of bar i already visited by `for grid_price in ...`
    current_price,  \* self.current_sim_price / local current_price
    grid_levels,    \* self.grid_levels / local grid_levels
    portfolio,      \* self.portfolio / local portfolio
    orders,         \* self.orders
    trades,         \* self.trades / local trades
    equity_curve,   \* results['equity_curve'] / local equity_curve
    results,        \* the value the run returns
    threads,        \* the other executions of run_strategy started on this instance
    call,           \* the last direct call of calculate_grid: its arguments and its outcome
    metrics,        \* self.performance_metrics / the report calculate_metrics returned
    now             \* datetime.now(), in minutes

vars == <<mode, params, data, duration_hours, pc, i, j, current_price, grid_levels, portfolio,
          orders, trades, equity_curve, results, threads, call, metrics, now>>

---------------------------------------------------------------------------
(* Bounds of the model *)

MaxBars == 3

(* Program constants *)

InitialCash == 10000
InitialCapital == 10000
SimFeeRate == 1
Tolerance == 1
DurationHours == 24

---------------------------------------------------------------------------
(* Fixed point *)

Scale == 7 * 11 * 13

Money(x) == x * Scale

\* x * rate / 1000, computed without leaving the integers of the checker
PerMille(x, rate) == (x \div 1000) * rate + ((x % 1000) * rate) \div 1000

Abs(x) == IF x < 0 THEN -x ELSE x

Min(a, b) == IF a <= b THEN a ELSE b

---------------------------------------------------------------------------
(* Inputs *)

\* first closes around which the generated grid is integral
Centres == {2001, 4002}

\* closes of the later bars of the simulation: on a level, next to it on either
\* side, at relative distance exactly 0.001 of it, and far from every level
Closes == {1998, 2000, 2001, 2002, 2003, 4002}

GridRange == [num |-> 1, den |-> 2001]

\* of the smaller, two buys fit into the initial cash and a third does not;
\* of the larger, one
OrderSizes == {4000, 8000}

FeeRates == {0, 1}

GridConfigs ==
    { [grid_type |-> "linear", num_grids |-> 2],
      [grid_type |-> "fibonacci", num_grids |-> 3] }

StrategyParams ==
    { [grid_type |-> g.grid_type, num_grids |-> g.num_grids,
       grid_range_pct |-> GridRange, order_size |-> Money(size),
       fee_rate |-> f] : g \in GridConfigs, size \in OrderSizes, f \in FeeRates }

Bars(closes) == [k \in 1..Len(closes) |-> [timestamp |-> k, close |-> closes[k]]]

RECURSIVE SeqsOver(_, _)
SeqsOver(S, n) ==
    IF n = 0 THEN {<<>>}
    ELSE LET shorter == SeqsOver(S, n - 1)
         IN  shorter \cup {Append(s, x) : s \in {t \in shorter : Len(t) = n - 1}, x \in S}

SimData == {Bars(<<c>> \o s) : c \in Centres, s \in SeqsOver(Closes, MaxBars - 1)}

BacktestData == {Bars(s) : s \in SeqsOver(Centres, MaxBars)}

\* a run_simulation call asked for one hour
ShortDuration == {1}

\* a source that, like the synthetic source of the simulation, is longer than
\* the duration asked for
LongData(hours) ==
    Bars([k \in 1..(hours * 60 + 1) |-> IF k = 1 THEN 4002 ELSE 2001])

---------------------------------------------------------------------------
(* GridTradingSystem.calculate_grid *)

\* np.linspace(lower, upper, num, endpoint=False)
linspace_open(lower, upper, num) ==
    [k \in 1..num |-> lower + ((k - 1) * (upper - lower)) \div num]

\* np.linspace(lower, upper, num)
linspace(lower, upper, num) ==
    [k \in 1..num |->
        IF num = 1 THEN lower
        ELSE lower + ((k - 1) * (upper - lower)) \div (num - 1)]

RECURSIVE Pow(_, _)
Pow(b, e) == IF e = 0 THEN 1 ELSE b * Pow(b, e - 1)

\* q = r^e
RECURSIVE IsPow(_, _, _)
IsPow(q, r, e) == IF e = 0 THEN q = 1 ELSE q % r = 0 /\ IsPow(q \div r, r, e - 1)

\* the bounds between which a geometric sequence of num levels has a whole ratio
GeometricExact(lower, upper, num) ==
    /\ num >= 2
    /\ upper % lower = 0
    /\ \E r \in 1..(upper \div lower) : IsPow(upper \div lower, r, num - 1)

\* np.geomspace(lower, upper, num) between such bounds
geomspace(lower, upper, num) ==
    LET ratio == CHOOSE r \in 1..(upper \div lower) : IsPow(upper \div lower, r, num - 1)
    IN  [k \in 1..num |-> lower * Pow(ratio, k - 1)]

\* the list of generate_fibonacci_ratios with one element less
RECURSIVE fib_list_short(_)
fib_list_short(n) ==
    IF n <= 3 THEN <<0, 1>>
    ELSE LET fib == fib_list_short(n - 1)
         IN  Append(fib, fib[Len(fib)] + fib[Len(fib) - 1])

RECURSIVE fib_list(_)
fib_list(n) ==
    IF n <= 2 THEN <<0, 1>>
    ELSE LET fib == fib_list(n - 1)
         IN  Append(fib, fib[Len(fib)] + fib[Len(fib) - 1])

RECURSIVE SeqMax(_)
SeqMax(s) ==
    IF Len(s) = 1 THEN s[1]
    ELSE LET m == SeqMax(SubSeq(s, 1, Len(s) - 1))
         IN  IF s[Len(s)] > m THEN s[Len(s)] ELSE m

\* the fibonacci branch with the ratios of an even spacing
fibonacci_levels_even(lower, upper, num) == linspace(lower, upper, num)

\* the fibonacci branch: lower_bound + ratio * price_range, ratio = f / max_fib
fibonacci_levels(lower, upper, num) ==
    LET fib == fib_list(num)
        max_fib == SeqMax(fib)
    IN  [k \in 1..Len(fib) |-> lower + (fib[k] * (upper - lower)) \div max_fib]

\* the grid of calculate_grid from the upper bound down to the lower
calculate_grid_descending(old_levels, lower_bound, upper_bound, num_grids, grid_type) ==
    LET up == IF grid_type = "fibonacci"
              THEN fibonacci_levels(lower_bound, upper_bound, num_grids)
              ELSE linspace(lower_bound, upper_bound, num_grids)
    IN  [k \in 1..Len(up) |-> up[Len(up) + 1 - k]]

calculate_grid(old_levels, lower_bound, upper_bound, num_grids, grid_type) ==
    IF grid_type = "linear" THEN linspace(lower_bound, upper_bound, num_grids)
    ELSE IF grid_type = "geometric" THEN geomspace(lower_bound, upper_bound, num_grids)
    ELSE IF grid_type = "fibonacci"
         THEN fibonacci_levels(lower_bound, upper_bound, num_grids)
    ELSE old_levels

lower_of(price, range) == (price * (range.den - range.num)) \div range.den

upper_of(price, range) == (price * (range.den + range.num)) \div range.den

---------------------------------------------------------------------------
(* The matching rule shared by run_simulation and backtest_grid_strategy *)

\* the touch test as it would be with `<=` for `<`
touched_inclusive(price, grid_price) ==
    Abs(price - grid_price) * 1000 <= Tolerance * grid_price

\* abs(price - grid_price) / grid_price < 0.001
touched(price, grid_price) == Abs(price - grid_price) * 1000 < Tolerance * grid_price

\* order_size / grid_price
amount_of(order_size, grid_price) == order_size \div grid_price

\* the directional rule as it would be with `<` for `<=`
is_buy_strict(price, grid_price) == price < grid_price

\* the directional rule: `if current_price <= grid_price` is the buy branch
is_buy(price, grid_price) == price <= grid_price

\* the sample as it would be with the value stored under 'price' as well
equity_sample_value_as_price(bar, value, price) ==
    [timestamp |-> bar.timestamp, value |-> value, price |-> value]

\* the sample appended to the equity curve for a bar
equity_sample(bar, value, price) ==
    [timestamp |-> bar.timestamp, value |-> value, price |-> price]

---------------------------------------------------------------------------
(* GridTradingSystem: portfolio ledger *)

\* a valuation that counts the cash only
update_portfolio_value_cash_only(pf, price) ==
    [pf EXCEPT !.total_value = pf.cash]

update_portfolio_value(pf, price) ==
    [pf EXCEPT !.total_value = pf.cash + pf.positions * price]

trade_fee(order) == PerMille(order.price * order.amount, SimFeeRate)

\* execute_trade as it would be without the position check of the sell branch
execute_trade_unchecked_sell(pf, order) ==
    LET cost == order.price * order.amount + trade_fee(order)
        revenue == order.price * order.amount - trade_fee(order)
        after ==
            IF order.side = "buy"
            THEN IF pf.cash >= cost
                 THEN [pf EXCEPT !.cash = @ - cost, !.positions = @ + order.amount]
                 ELSE pf
            ELSE [pf EXCEPT !.cash = @ + revenue, !.positions = @ - order.amount]
    IN  update_portfolio_value(after, order.price)

\* the portfolio after execute_trade(order)
execute_trade(pf, order) ==
    LET cost == order.price * order.amount + trade_fee(order)
        revenue == order.price * order.amount - trade_fee(order)
        after ==
            IF order.side = "buy"
            THEN IF pf.cash >= cost
                 THEN [pf EXCEPT !.cash = @ - cost, !.positions = @ + order.amount]
                 ELSE pf
            ELSE IF pf.positions >= order.amount
                 THEN [pf EXCEPT !.cash = @ + revenue, !.positions = @ - order.amount]
                 ELSE pf
    IN  update_portfolio_value(after, order.price)

\* the trade execute_trade appends to self.trades
trade_of(order) ==
    [order_id |-> order.id, price |-> order.price, amount |-> order.amount,
     side |-> order.side, fee |-> trade_fee(order)]

\* place_order as it would be if it numbered its orders by their level
place_order_id_of_level(price, amount, side) ==
    LET order == [id |-> j + 1, price |-> price, amount |-> amount,
                  side |-> side, type |-> "limit", status |-> "filled"]
    IN  /\ portfolio' = execute_trade(portfolio, order)
        /\ trades' = Append(trades, trade_of(order))
        /\ orders' = Append(orders, order)

\* place_order as it would be if it logged the order a second time
place_order_twice(price, amount, side) ==
    LET order == [id |-> Len(orders) + 1, price |-> price, amount |-> amount,
                  side |-> side, type |-> "limit", status |-> "filled"]
    IN  /\ portfolio' = execute_trade(portfolio, order)
        /\ trades' = Append(trades, trade_of(order))
        /\ orders' = Append(Append(orders, order), order)

\* place_order in mode 'simulation'; the wall-clock timestamps of the order and
\* of the trade are left out
place_order(price, amount, side) ==
    LET order == [id |-> Len(orders) + 1, price |-> price, amount |-> amount,
                  side |-> side, type |-> "limit", status |-> "open"]
        filled == [order EXCEPT !.status = "filled"]
    IN  /\ portfolio' = execute_trade(portfolio, filled)
        /\ trades' = Append(trades, trade_of(filled))
        /\ orders' = Append(orders, filled)

---------------------------------------------------------------------------
(* GridTradingSystem.run_simulation *)

iloc(k) == data[k + 1]

\* the loop bound as it would be with the last bar left out
NumBars_without_last ==
    IF mode = "simulation" THEN Min(Len(data) - 1, duration_hours * 60) ELSE Len(data) - 1

\* range(min(len(self.sim_data), duration_hours * 60)) / range(len(df))
NumBars ==
    IF mode = "simulation" THEN Min(Len(data), duration_hours * 60) ELSE Len(data)

\* the setup as it would be if a run began with a fresh portfolio and logs
run_simulation_setup_fresh ==
    /\ mode = "simulation"
    /\ pc = "idle"
    /\ LET price == iloc(0).close
           lower == lower_of(price, params.grid_range_pct)
           upper == upper_of(price, params.grid_range_pct)
       IN  grid_levels' = calculate_grid(grid_levels, lower, upper,
                                         params.num_grids, params.grid_type)
    /\ portfolio' = [cash |-> Money(InitialCash), positions |-> 0,
                     total_value |-> Money(InitialCash)]
    /\ orders' = <<>>
    /\ trades' = <<>>
    /\ equity_curve' = <<>>
    /\ i' = 0
    /\ pc' = "for_bar"
    /\ UNCHANGED <<metrics, now, call, threads, mode, params, data, duration_hours, j,
                   current_price, results>>

run_simulation_setup ==
    /\ mode = "simulation"
    /\ pc = "idle"
    /\ LET price == iloc(0).close
           lower == lower_of(price, params.grid_range_pct)
           upper == upper_of(price, params.grid_range_pct)
       IN  grid_levels' = calculate_grid(grid_levels, lower, upper,
                                         params.num_grids, params.grid_type)
    /\ equity_curve' = <<>>
    /\ i' = 0
    /\ pc' = "for_bar"
    /\ UNCHANGED <<metrics, now, call, threads, mode, params, data, duration_hours, j,
                   current_price, portfolio, orders, trades, results>>

sim_bar_start ==
    /\ mode = "simulation"
    /\ pc = "for_bar"
    /\ i < NumBars
    /\ current_price' = iloc(i).close
    /\ j' = 0
    /\ pc' = "for_level"
    /\ UNCHANGED <<metrics, now, call, threads, mode, params, data, duration_hours, i, grid_levels, portfolio, orders, trades,
                   equity_curve, results>>

sim_level ==
    /\ mode = "simulation"
    /\ pc = "for_level"
    /\ j < Len(grid_levels)
    /\ LET grid_price == grid_levels[j + 1]
           amount == amount_of(params.order_size, grid_price)
       IN  IF touched(current_price, grid_price)
           THEN IF is_buy(current_price, grid_price)
                THEN place_order(grid_price, amount, "buy")
                ELSE IF portfolio.positions > 0
                     THEN place_order(grid_price, amount, "sell")
                     ELSE UNCHANGED <<portfolio, orders, trades>>
           ELSE UNCHANGED <<portfolio, orders, trades>>
    /\ j' = j + 1
    /\ UNCHANGED <<metrics, now, call, threads, mode, params, data, duration_hours, pc, i, current_price, grid_levels,
                   equity_curve, results>>

sim_bar_end ==
    /\ mode = "simulation"
    /\ pc = "for_level"
    /\ j = Len(grid_levels)
    /\ portfolio' = update_portfolio_value(portfolio, current_price)
    /\ equity_curve' = Append(equity_curve,
                              equity_sample(iloc(i), portfolio'.total_value, current_price))
    /\ i' = i + 1
    /\ pc' = "for_bar"
    /\ UNCHANGED <<metrics, now, call, threads, mode, params, data, duration_hours, j,
                   current_price, grid_levels, orders, trades, results>>

sim_finish ==
    /\ mode = "simulation"
    /\ pc = "for_bar"
    /\ i >= NumBars
    /\ results' = [equity_curve |-> equity_curve, trades |-> trades]
    /\ pc' = "done"
    /\ UNCHANGED <<metrics, now, call, threads, mode, params, data, duration_hours, i, j, current_price, grid_levels, portfolio,
                   orders, trades, equity_curve>>

---------------------------------------------------------------------------
(* Backtester.backtest_grid_strategy *)

NoProfit == [num |-> 0, den |-> 1]

\* (grid_price - avg_buy_price) * sell_amount as the fraction num/den, where
\* avg_buy_price is the unweighted mean of the recorded buy prices
realized_profit(trade_log, grid_price, sell_amount) ==
    LET buys == {k \in 1..Len(trade_log) : trade_log[k].side = "buy"}
        RECURSIVE price_sum(_)
        price_sum(n) ==
            IF n = 0 THEN 0
            ELSE price_sum(n - 1) + (IF n \in buys THEN trade_log[n].price ELSE 0)
    IN  IF buys # {}
        THEN [num |-> (grid_price * Cardinality(buys) - price_sum(Len(trade_log))) * sell_amount,
              den |-> Cardinality(buys)]
        ELSE NoProfit

backtest_setup ==
    /\ mode = "backtest"
    /\ pc = "idle"
    /\ portfolio' = [cash |-> Money(InitialCapital), positions |-> 0,
                     total_value |-> Money(InitialCapital)]
    /\ trades' = <<>>
    /\ equity_curve' = <<>>
    /\ i' = 0
    /\ pc' = "for_bar"
    /\ UNCHANGED <<metrics, now, call, threads, mode, params, data, duration_hours, j,
                   current_price, grid_levels, orders, results>>

bt_bar_start ==
    /\ mode = "backtest"
    /\ pc = "for_bar"
    /\ i < NumBars
    /\ current_price' = iloc(i).close
    /\ grid_levels' = linspace(lower_of(iloc(i).close, params.grid_range_pct),
                               upper_of(iloc(i).close, params.grid_range_pct),
                               params.num_grids)
    /\ j' = 0
    /\ pc' = "for_level"
    /\ UNCHANGED <<metrics, now, call, threads, mode, params, data, duration_hours, i,
                   portfolio, orders, trades, equity_curve, results>>

\* the buy branch of the loop body
bt_buy(grid_price) ==
    LET amount == amount_of(params.order_size, grid_price)
        cost == PerMille(amount * grid_price, 1000 + params.fee_rate)
    IN  IF portfolio.cash >= cost
        THEN /\ portfolio' = [portfolio EXCEPT !.cash = @ - cost, !.positions = @ + amount]
             /\ trades' = Append(trades,
                    [timestamp |-> iloc(i).timestamp, side |-> "buy", price |-> grid_price,
                     amount |-> amount, fee |-> PerMille(amount * grid_price, params.fee_rate),
                     profit |-> NoProfit])
        ELSE UNCHANGED <<portfolio, trades>>

\* min(portfolio['positions'], order_size_usdt / grid_price)
sell_amount_of(positions, order_size, grid_price) ==
    Min(positions, amount_of(order_size, grid_price))

\* the sell branch as it would be without the test of portfolio['positions']
bt_sell_unchecked(grid_price) ==
    LET sell_amount == sell_amount_of(portfolio.positions, params.order_size, grid_price)
        revenue == PerMille(sell_amount * grid_price, 1000 - params.fee_rate)
    IN  /\ portfolio' = [portfolio EXCEPT !.cash = @ + revenue,
                                          !.positions = @ - sell_amount]
        /\ trades' = Append(trades,
               [timestamp |-> iloc(i).timestamp, side |-> "sell", price |-> grid_price,
                amount |-> sell_amount,
                fee |-> PerMille(sell_amount * grid_price, params.fee_rate),
                profit |-> realized_profit(trades, grid_price, sell_amount)])

\* the sell branch of the loop body
bt_sell(grid_price) ==
    IF portfolio.positions > 0
    THEN LET sell_amount == sell_amount_of(portfolio.positions, params.order_size, grid_price)
             revenue == PerMille(sell_amount * grid_price, 1000 - params.fee_rate)
         IN  /\ portfolio' = [portfolio EXCEPT !.cash = @ + revenue,
                                               !.positions = @ - sell_amount]
             /\ trades' = Append(trades,
                    [timestamp |-> iloc(i).timestamp, side |-> "sell", price |-> grid_price,
                     amount |-> sell_amount,
                     fee |-> PerMille(sell_amount * grid_price, params.fee_rate),
                     profit |-> realized_profit(trades, grid_price, sell_amount)])
    ELSE UNCHANGED <<portfolio, trades>>

bt_level ==
    /\ mode = "backtest"
    /\ pc = "for_level"
    /\ j < Len(grid_levels)
    /\ LET grid_price == grid_levels[j + 1]
       IN  IF touched(current_price, grid_price)
           THEN IF is_buy(current_price, grid_price)
                THEN bt_buy(grid_price)
                ELSE bt_sell(grid_price)
           ELSE UNCHANGED <<portfolio, trades>>
    /\ j' = j + 1
    /\ UNCHANGED <<metrics, now, call, threads, mode, params, data, duration_hours, pc, i, current_price, grid_levels, orders,
                   equity_curve, results>>

bt_bar_end ==
    /\ mode = "backtest"
    /\ pc = "for_level"
    /\ j = Len(grid_levels)
    /\ equity_curve' = Append(equity_curve,
                              equity_sample(iloc(i),
                                            portfolio.cash + portfolio.positions * current_price,
                                            current_price))
    /\ i' = i + 1
    /\ pc' = "for_bar"
    /\ UNCHANGED <<metrics, now, call, threads, mode, params, data, duration_hours, j, current_price, grid_levels, portfolio, orders,
                   trades, results>>

bt_finish ==
    /\ mode = "backtest"
    /\ pc = "for_bar"
    /\ i >= NumBars
    /\ results' = [equity_curve |-> equity_curve, trades |-> trades, portfolio |-> portfolio]
    /\ pc' = "done"
    /\ UNCHANGED <<metrics, now, call, threads, mode, params, data, duration_hours, i, j, current_price, grid_levels, portfolio,
                   orders, trades, equity_curve>>

---------------------------------------------------------------------------
(* The system *)

NoResults == [equity_curve |-> <<>>, trades |-> <<>>]

\* self.performance_metrics = {}
NoMetrics == [key \in {} |-> 0]

\* calculate_grid has not been called directly
NoCall == [lower_bound |-> 0, upper_bound |-> 0, num_grids |-> 0, grid_type |-> "",
           outcome |-> "none", returned |-> <<>>]

\* GridTradingSystem.__init__ / the locals of backtest_grid_strategy before the loop
Constructed ==
    /\ pc = "idle"
    /\ i = 0
    /\ j = 0
    /\ current_price = IF mode = "simulation" THEN data[1].close ELSE 0
    /\ grid_levels = <<>>
    /\ portfolio = [cash |-> Money(InitialCash), positions |-> 0,
                    total_value |-> Money(InitialCash)]
    /\ orders = <<>>
    /\ trades = <<>>
    /\ equity_curve = <<>>
    /\ results = NoResults
    /\ threads = <<>>
    /\ call = NoCall
    /\ metrics = NoMetrics
    /\ now = 0

\* GridTradingSystem.__init__ and the inputs of one run.  The backtest ignores
\* grid_type and always spaces its grid linearly; it is run with two levels,
\* three would put a level on the close itself, which Scale does not divide.
Init ==
    /\ \/ /\ mode = "simulation"
          /\ duration_hours = DurationHours
          /\ data \in SimData
          /\ params \in StrategyParams
       \/ /\ mode = "simulation"
          /\ duration_hours \in ShortDuration
          /\ data = LongData(duration_hours)
          /\ params \in {p \in StrategyParams : p.grid_type = "linear" /\ p.fee_rate = 1}
       \/ /\ mode = "backtest"
          /\ duration_hours = DurationHours
          /\ data \in BacktestData
          /\ params \in {p \in StrategyParams : p.grid_type = "linear"}
    /\ Constructed

Next ==
    \/ run_simulation_setup
    \/ sim_bar_start
    \/ sim_level
    \/ sim_bar_end
    \/ sim_finish
    \/ backtest_setup
    \/ bt_bar_start
    \/ bt_level
    \/ bt_bar_end
    \/ bt_finish

Spec == Init /\ [][Next]_vars

\* a run is one thread executing a loop: it takes its next step whenever it has one
FairSpec == Spec /\ WF_vars(Next)

---------------------------------------------------------------------------
(* Activation.  PUT /api/strategies/{id}/activate (src/ap.py) and the       *)
(* dashboard's Start button (src/app_streamlit.py) each start a daemon      *)
(* thread that runs run_strategy(params) on the strategy's one              *)
(* GridTradingSystem; neither looks whether a run is in progress and        *)
(* neither takes a lock.  The threads of one interpreter execute one at a   *)
(* time: pc, i, j, equity_curve and results are the locals of the thread    *)
(* that holds the interpreter, `threads` keeps the locals of the others,    *)
(* and a switch hands the interpreter over between two steps.  Every other  *)
(* variable is an attribute of the instance and is shared by the threads.   *)

MaxActivations == 2

\* the locals of the thread that holds the interpreter
Locals == [pc |-> pc, i |-> i, j |-> j, equity_curve |-> equity_curve, results |-> results]

\* threading.Thread(target=trading_system.run_strategy, args=(params,)).start()
Started == [pc |-> "idle", i |-> 0, j |-> 0, equity_curve |-> <<>>, results |-> NoResults]

activate_strategy ==
    /\ mode = "simulation"
    /\ Len(threads) + 1 < MaxActivations
    /\ threads' = Append(threads, Started)
    /\ UNCHANGED <<metrics, now, call, mode, params, data, duration_hours, pc, i, j, current_price,
                   grid_levels, portfolio, orders, trades, equity_curve, results>>

\* the interpreter passes from the running thread to thread k
switch_thread ==
    \E k \in 1..Len(threads) :
        /\ threads' = [threads EXCEPT ![k] = Locals]
        /\ pc' = threads[k].pc
        /\ i' = threads[k].i
        /\ j' = threads[k].j
        /\ equity_curve' = threads[k].equity_curve
        /\ results' = threads[k].results
        /\ UNCHANGED <<metrics, now, call, mode, params, data, duration_hours, current_price, grid_levels,
                       portfolio, orders, trades>>

\* one strategy of the API: a simulation instance, activated with the strategy's parameters
ConcurrentInit ==
    /\ Init
    /\ mode = "simulation"
    /\ duration_hours = DurationHours
    /\ Len(data) <= 2

ConcurrentNext ==
    \/ run_simulation_setup
    \/ sim_bar_start
    \/ sim_level
    \/ sim_bar_end
    \/ sim_finish
    \/ activate_strategy
    \/ switch_thread

ConcurrentSpec == ConcurrentInit /\ [][ConcurrentNext]_vars

---------------------------------------------------------------------------
(* calculate_grid called on its own.  The bounds are prices in units of     *)
(* 1/GridUnit, fine enough that the linear and the fibonacci levels of      *)
(* every count used are whole; the geometric mode is called between bounds  *)
(* whose common ratio is whole.  The stored grid is self.grid_levels, empty *)
(* after construction and afterwards the result of the call before.         *)

MaxCount == 6

GridUnit == 8 * 3 * 5

Fine(x) == x * GridUnit

\* [90, 110] is the range of 10 % around 100; 16 and 64 are powers
GridBounds == {<<90, 110>>, <<1, 16>>, <<1, 64>>}

SupportedTypes == {"linear", "geometric", "fibonacci"}

\* a spacing mode the generator does not know
UnsupportedTypes == {"logarithmic"}

GridCalls ==
    { c \in [lower_bound : {Fine(b[1]) : b \in GridBounds},
             upper_bound : {Fine(b[2]) : b \in GridBounds},
             num_grids : 2..MaxCount,
             grid_type : SupportedTypes \cup UnsupportedTypes] :
        /\ \E b \in GridBounds : c.lower_bound = Fine(b[1]) /\ c.upper_bound = Fine(b[2])
        /\ c.grid_type = "geometric"
              => GeometricExact(c.lower_bound, c.upper_bound, c.num_grids) }

\* grid = system.calculate_grid(price, lower_bound, upper_bound, num_grids, grid_type)
calculate_grid_call ==
    \E c \in GridCalls :
        /\ grid_levels' = calculate_grid(grid_levels, c.lower_bound, c.upper_bound,
                                         c.num_grids, c.grid_type)
        /\ call' = [lower_bound |-> c.lower_bound, upper_bound |-> c.upper_bound,
                    num_grids |-> c.num_grids, grid_type |-> c.grid_type,
                    outcome |-> "returned", returned |-> grid_levels']
        /\ UNCHANGED <<metrics, now, threads, mode, params, data, duration_hours, pc, i, j, current_price,
                       portfolio, orders, trades, equity_curve, results>>

GridInit ==
    /\ Init
    /\ mode = "simulation"
    /\ duration_hours = DurationHours
    /\ Len(data) = 1

GridNext == calculate_grid_call

GridSpec == GridInit /\ [][GridNext]_vars

---------------------------------------------------------------------------
(* Runs with a configuration that is not valid: one level only, a range of  *)
(* zero (lower = upper), a spacing mode the generator does not know.        *)

ZeroRange == [num |-> 0, den |-> 1]

InvalidConfigs ==
    { [grid_type |-> "linear", num_grids |-> 1, grid_range_pct |-> GridRange],
      [grid_type |-> "linear", num_grids |-> 2, grid_range_pct |-> ZeroRange] }
        \cup { [grid_type |-> t, num_grids |-> 2, grid_range_pct |-> GridRange] :
                   t \in UnsupportedTypes }

InvalidParams ==
    { [grid_type |-> g.grid_type, num_grids |-> g.num_grids,
       grid_range_pct |-> g.grid_range_pct, order_size |-> Money(size),
       fee_rate |-> SimFeeRate] : g \in InvalidConfigs, size \in OrderSizes }

\* with a range of zero every level is the first close: closes that divide the order size
ZeroRangeData == {Bars(<<c>> \o s) : c \in {2000, 2002}, s \in SeqsOver(Closes, MaxBars - 1)}

InvalidConfigInit ==
    /\ \/ /\ mode = "simulation"
          /\ params \in {p \in InvalidParams : p.grid_range_pct # ZeroRange}
          /\ data \in SimData
       \/ /\ mode = "simulation"
          /\ params \in {p \in InvalidParams : p.grid_range_pct = ZeroRange}
          /\ data \in ZeroRangeData
       \/ /\ mode = "backtest"
          /\ params \in {p \in InvalidParams : p.num_grids = 1}
          /\ data \in BacktestData
    /\ duration_hours = DurationHours
    /\ Constructed

InvalidConfigSpec == InvalidConfigInit /\ [][Next]_vars

---------------------------------------------------------------------------
(* Performance metrics: GridTradingSystem.calculate_performance_metrics     *)
(* (over self.trades) and Backtester.calculate_metrics.  A ratio is the     *)
(* fraction num/den with den > 0, and num/0 with num > 0 is float('inf').   *)
(* A report is a dict: a function from the keys it holds.  The Sharpe ratio *)
(* and avg_trade, which need a square root and a mean of floats, are left   *)
(* out of the reports.                                                      *)

Infinity == [num |-> 1, den |-> 0]

Ratio(n, d) == [num |-> n, den |-> d]

\* a < b, for ratios with den > 0
Less(a, b) == a.num * b.den < b.num * a.den

\* a + b
Plus(a, b) == Ratio(a.num * b.den + b.num * a.den, a.den * b.den)

\* t.get('profit', 0)
get_profit(t) == IF "profit" \in DOMAIN t THEN t.profit ELSE NoProfit

\* values.expanding().max() at sample t
RECURSIVE expanding_max(_, _)
expanding_max(values, t) ==
    IF t = 1 THEN values[1]
    ELSE LET peak == expanding_max(values, t - 1)
         IN  IF values[t] > peak THEN values[t] ELSE peak

\* the smallest of the drawdowns of the samples 1..t, times 100
RECURSIVE drawdown_min(_, _)
drawdown_min(values, t) ==
    LET peak == expanding_max(values, t)
        drawdown == Ratio((values[t] - peak) * 100, peak)
    IN  IF t = 1 THEN drawdown
        ELSE LET below == drawdown_min(values, t - 1)
             IN  IF Less(drawdown, below) THEN drawdown ELSE below

\* calculate_max_drawdown / max_dd of calculate_metrics
calculate_max_drawdown(values) == drawdown_min(values, Len(values))

\* (last / first - 1) * 100
total_return(values) ==
    Ratio((values[Len(values)] - values[1]) * 100, values[1])

IsWin(profit) == profit.num > 0

\* sum of the profits of the trades 1..n that are gains (sign 1) or losses (sign -1)
RECURSIVE profit_sum(_, _, _)
profit_sum(trade_log, n, sign) ==
    IF n = 0 THEN NoProfit
    ELSE LET rest == profit_sum(trade_log, n - 1, sign)
             profit == get_profit(trade_log[n])
         IN  IF profit.num * sign > 0 THEN Plus(rest, profit) ELSE rest

\* calculate_win_rate / win_rate of calculate_metrics: the share of all trades
calculate_win_rate(trade_log) ==
    IF trade_log = <<>> THEN Ratio(0, 1)
    ELSE Ratio(Cardinality({k \in 1..Len(trade_log) : IsWin(get_profit(trade_log[k]))}) * 100,
               Len(trade_log))

\* calculate_profit_factor / profit_factor of calculate_metrics
calculate_profit_factor(trade_log) ==
    IF trade_log = <<>> THEN Ratio(0, 1)
    ELSE LET gross_profit == profit_sum(trade_log, Len(trade_log), 1)
             gross_loss == profit_sum(trade_log, Len(trade_log), -1)
         IN  IF gross_loss.num # 0
             THEN Ratio(gross_profit.num * gross_loss.den,
                        gross_profit.den * (-gross_loss.num))
             ELSE Infinity

sample_values(curve) == [k \in 1..Len(curve) |-> curve[k].value]

\* GridTradingSystem.calculate_performance_metrics(equity_curve)
calculate_performance_metrics ==
    /\ mode = "simulation"
    /\ pc = "metrics"
    /\ metrics' =
          IF equity_curve = <<>> THEN NoMetrics
          ELSE [total_return |-> total_return(sample_values(equity_curve)),
                max_drawdown |-> calculate_max_drawdown(sample_values(equity_curve)),
                win_rate |-> calculate_win_rate(trades),
                profit_factor |-> calculate_profit_factor(trades),
                total_trades |-> Len(trades)]
    /\ pc' = "done"
    /\ UNCHANGED <<now, call, threads, mode, params, data, duration_hours, i, j, current_price,
                   grid_levels, portfolio, orders, trades, equity_curve, results>>

\* Backtester.calculate_metrics(equity_curve_df, trades); every trade of the
\* backtest carries a profit, so the column is there whenever there is a trade
calculate_metrics ==
    /\ mode = "backtest"
    /\ pc = "metrics"
    /\ metrics' =
          IF Len(equity_curve) < 2 THEN NoMetrics
          ELSE [total_return_pct |-> total_return(sample_values(equity_curve)),
                max_drawdown_pct |-> calculate_max_drawdown(sample_values(equity_curve)),
                win_rate_pct |-> calculate_win_rate(trades),
                profit_factor |-> calculate_profit_factor(trades),
                total_trades |-> Len(trades)]
    /\ pc' = "done"
    /\ UNCHANGED <<now, call, threads, mode, params, data, duration_hours, i, j, current_price,
                   grid_levels, portfolio, orders, trades, equity_curve, results>>

MaxSamples == 3

MaxTrades == 3

\* portfolio values; [10000, 10500, 9800, 11000] rises, falls and recovers
SampleValues == {9800, 10500, 11000}

ExampleValues == <<10000, 10500, 9800, 11000>>

Curve(values) ==
    [k \in 1..Len(values) |-> [timestamp |-> k, value |-> values[k], price |-> values[k]]]

EquityCurves == {Curve(v) : v \in SeqsOver(SampleValues, MaxSamples) \cup {ExampleValues}}

\* a buy, a sell at a gain, a sell at a loss, a sell at the price paid
BacktestTrades ==
    { [side |-> "buy", profit |-> Ratio(0, 1)],
      [side |-> "sell", profit |-> Ratio(30, 1)],
      [side |-> "sell", profit |-> Ratio(-50, 2)],
      [side |-> "sell", profit |-> Ratio(0, 1)] }

\* the trades of execute_trade carry no profit
SimulationTrades == {[side |-> "buy"], [side |-> "sell"]}

MetricsInit ==
    /\ \/ /\ mode = "simulation"
          /\ trades \in SeqsOver(SimulationTrades, MaxTrades)
       \/ /\ mode = "backtest"
          /\ trades \in SeqsOver(BacktestTrades, MaxTrades)
    /\ equity_curve \in EquityCurves
    /\ pc = "metrics"
    /\ params \in {p \in StrategyParams : p.grid_type = "linear" /\ p.fee_rate = SimFeeRate
                                            /\ p.order_size = Money(4000)}
    /\ data = <<>>
    /\ duration_hours = DurationHours
    /\ i = Len(equity_curve)
    /\ j = 0
    /\ current_price = 0
    /\ grid_levels = <<>>
    /\ portfolio = [cash |-> Money(InitialCash), positions |-> 0,
                    total_value |-> Money(InitialCash)]
    /\ orders = <<>>
    /\ results = NoResults
    /\ threads = <<>>
    /\ call = NoCall
    /\ metrics = NoMetrics
    /\ now = 0

MetricsNext ==
    \/ calculate_performance_metrics
    \/ calculate_metrics

MetricsSpec == MetricsInit /\ [][MetricsNext]_vars

---------------------------------------------------------------------------
(* The synthetic data sources: GridTradingSystem.generate_market_data,      *)
(* called without arguments by setup_simulation, and                        *)
(* Backtester.generate_test_data(start_date, end_date).  numpy's generator  *)
(* is a fixed function of its seed; it is modelled by a linear congruential *)
(* stream, a normal draw by a step of -1, 0 or 1 price units, and the walk  *)
(* base_price * exp(cumsum(returns)) by base_price + PriceStep *            *)
(* cumsum(steps).  Timestamps are minutes.                                  *)

Seed == 42

BasePrice == 50000

MaxClock == 10

MaxPeriods == 3

\* the price moved by one draw; a multiple of 1000, so that the open, high
\* and low of a bar are whole
PriceStep == 2 * 1000

\* the state of the generator after k draws
RECURSIVE random_state(_, _)
random_state(seed, k) ==
    IF k = 0 THEN seed % 64 ELSE (random_state(seed, k - 1) * 5 + 3) % 64

\* draw k of np.random.normal
normal(seed, k) == (random_state(seed, k) % 3) - 1

\* np.cumsum(returns)[k]
RECURSIVE cumsum(_, _)
cumsum(seed, k) == IF k = 0 THEN 0 ELSE cumsum(seed, k - 1) + normal(seed, k)

random_walk(seed, k) == BasePrice + PriceStep * cumsum(seed, k)

\* prices[k] after the mean-reversion loop, which rewrites prices[i] for i >= 1
\* (0-based) from the already rewritten prices[i - 1]
RECURSIVE mean_reverted(_, _)
mean_reverted(seed, k) ==
    IF k = 1 THEN random_walk(seed, 1)
    ELSE IF random_walk(seed, k) * 10 > BasePrice * 11
         THEN PerMille(mean_reverted(seed, k - 1), 999)
    ELSE IF random_walk(seed, k) * 10 < BasePrice * 9
         THEN PerMille(mean_reverted(seed, k - 1), 1001)
    ELSE random_walk(seed, k)

\* generate_market_data(): pd.date_range(end=datetime.now(), periods, freq='1min')
\* puts the last bar at the time of the call; the volumes are the draws that
\* follow those of the returns
market_data(periods, clock) ==
    [k \in 1..periods |->
        LET price == mean_reverted(Seed, k)
        IN  [timestamp |-> clock - (periods - k),
             open |-> PerMille(price, 999),
             high |-> PerMille(price, 1001),
             low |-> PerMille(price, 998),
             close |-> price,
             volume |-> 100 + random_state(Seed, periods + k)]]

\* generate_test_data(start_date, end_date): one bar per hour from start to end
test_data(start_date, end_date) ==
    [k \in 1..((end_date - start_date) \div 60 + 1) |->
        LET price == random_walk(Seed, k)
        IN  [timestamp |-> start_date + (k - 1) * 60,
             open |-> PerMille(price, 999),
             high |-> PerMille(price, 1005),
             low |-> PerMille(price, 995),
             close |-> price,
             volume |-> 100 + random_state(Seed, (end_date - start_date) \div 60 + 1 + k)]]

\* time passes
tick ==
    /\ now < MaxClock
    /\ now' = now + 1
    /\ UNCHANGED <<metrics, call, threads, mode, params, data, duration_hours, pc, i, j,
                   current_price, grid_levels, portfolio, orders, trades, equity_curve,
                   results>>

\* setup_simulation: self.sim_data = self.generate_market_data()
generate_market_data ==
    /\ mode = "simulation"
    /\ pc = "idle"
    /\ data' = market_data(MaxPeriods, now)
    /\ current_price' = data'[1].close
    /\ UNCHANGED <<metrics, now, call, threads, mode, params, duration_hours, pc, i, j,
                   grid_levels, portfolio, orders, trades, equity_curve, results>>

\* the dates a test series is asked for: a start and one to MaxPeriods hours
DateRanges == {<<start, start + (n - 1) * 60>> : start \in {0, 60}, n \in 1..MaxPeriods}

\* data = backtester.generate_test_data(start_date, end_date)
generate_test_data ==
    /\ mode = "backtest"
    /\ pc = "idle"
    /\ \E range \in DateRanges : data' = test_data(range[1], range[2])
    /\ UNCHANGED <<metrics, now, call, threads, mode, params, duration_hours, pc, i, j,
                   current_price, grid_levels, portfolio, orders, trades, equity_curve,
                   results>>

\* a simulation instance constructed at time 0, a Backtester without data
DataInit ==
    /\ \/ /\ mode = "simulation"
          /\ data = market_data(MaxPeriods, 0)
          /\ current_price = data[1].close
       \/ /\ mode = "backtest"
          /\ data = <<>>
          /\ current_price = 0
    /\ params \in {p \in StrategyParams : p.grid_type = "linear" /\ p.fee_rate = SimFeeRate
                                            /\ p.order_size = Money(4000)}
    /\ duration_hours = DurationHours
    /\ pc = "idle"
    /\ i = 0
    /\ j = 0
    /\ grid_levels = <<>>
    /\ portfolio = [cash |-> Money(InitialCash), positions |-> 0,
                    total_value |-> Money(InitialCash)]
    /\ orders = <<>>
    /\ trades = <<>>
    /\ equity_curve = <<>>
    /\ results = NoResults
    /\ threads = <<>>
    /\ call = NoCall
    /\ metrics = NoMetrics
    /\ now = 0

DataNext ==
    \/ tick
    \/ generate_market_data
    \/ generate_test_data

DataSpec == DataInit /\ [][DataNext]_vars

---------------------------------------------------------------------------
(* Several calls of backtest_grid_strategy on one data frame, as            *)
(* optimize_parameters makes one after the other and as callers may make    *)
(* from threads of their own.  Everything a call works on is a local of the *)
(* call (df = data.copy(), portfolio, trades, equity_curve, grid_levels):   *)
(* the variables hold the locals of the call that is executing and          *)
(* `threads` those of the other calls.                                      *)

MaxCalls == 2

\* the locals of the call that is executing
Frame ==
    [params |-> params, pc |-> pc, i |-> i, j |-> j, current_price |-> current_price,
     grid_levels |-> grid_levels, portfolio |-> portfolio, trades |-> trades,
     equity_curve |-> equity_curve, results |-> results]

\* a call that has not executed its first statement
NewCall(strategy_params) ==
    [params |-> strategy_params, pc |-> "idle", i |-> 0, j |-> 0, current_price |-> 0,
     grid_levels |-> <<>>,
     portfolio |-> [cash |-> Money(InitialCapital), positions |-> 0,
                    total_value |-> Money(InitialCapital)],
     trades |-> <<>>, equity_curve |-> <<>>, results |-> NoResults]

\* the parameter sets optimize_parameters goes through
ParamGrid == {p \in StrategyParams : p.grid_type = "linear" /\ p.order_size = Money(4000)}

\* result = self.backtest_grid_strategy(data, params), once more
backtest_call ==
    /\ mode = "backtest"
    /\ Len(threads) + 1 < MaxCalls
    /\ \E p \in ParamGrid : threads' = Append(threads, NewCall(p))
    /\ UNCHANGED <<metrics, now, call, mode, params, data, duration_hours, pc, i, j,
                   current_price, grid_levels, portfolio, orders, trades, equity_curve,
                   results>>

\* execution passes to call k; as it would be if the portfolio were an
\* attribute of the Backtester, which the calls share
backtest_switch_shared_portfolio ==
    \E k \in 1..Len(threads) :
        /\ threads' = [threads EXCEPT ![k] = Frame]
        /\ params' = threads[k].params
        /\ pc' = threads[k].pc
        /\ i' = threads[k].i
        /\ j' = threads[k].j
        /\ current_price' = threads[k].current_price
        /\ grid_levels' = threads[k].grid_levels
        /\ trades' = threads[k].trades
        /\ equity_curve' = threads[k].equity_curve
        /\ results' = threads[k].results
        /\ UNCHANGED <<metrics, now, call, mode, data, duration_hours, orders, portfolio>>

\* execution passes from the call that is executing to call k
backtest_switch ==
    \E k \in 1..Len(threads) :
        /\ threads' = [threads EXCEPT ![k] = Frame]
        /\ params' = threads[k].params
        /\ pc' = threads[k].pc
        /\ i' = threads[k].i
        /\ j' = threads[k].j
        /\ current_price' = threads[k].current_price
        /\ grid_levels' = threads[k].grid_levels
        /\ portfolio' = threads[k].portfolio
        /\ trades' = threads[k].trades
        /\ equity_curve' = threads[k].equity_curve
        /\ results' = threads[k].results
        /\ UNCHANGED <<metrics, now, call, mode, data, duration_hours, orders>>

BacktestsInit ==
    /\ mode = "backtest"
    /\ duration_hours = DurationHours
    /\ data \in BacktestData
    /\ params \in ParamGrid
    /\ Constructed

BacktestsNext ==
    \/ backtest_setup
    \/ bt_bar_start
    \/ bt_level
    \/ bt_bar_end
    \/ bt_finish
    \/ backtest_call
    \/ backtest_switch

BacktestsSpec == BacktestsInit /\ [][BacktestsNext]_vars

---------------------------------------------------------------------------
(* Runs of run_simulation one after the other on one GridTradingSystem:    *)
(* the caller starts the strategy again when the run before has returned.  *)
(* `threads` keeps what the earlier runs returned.                         *)

\* run_simulation is called again on the instance
run_again ==
    /\ mode = "simulation"
    /\ pc = "done"
    /\ Len(threads) + 1 < MaxActivations
    /\ threads' = Append(threads, Locals)
    /\ pc' = "idle"
    /\ i' = 0
    /\ j' = 0
    /\ equity_curve' = <<>>
    /\ results' = NoResults
    /\ UNCHANGED <<metrics, now, call, mode, params, data, duration_hours, current_price,
                   grid_levels, portfolio, orders, trades>>

RerunInit ==
    /\ Init
    /\ mode = "simulation"
    /\ duration_hours = DurationHours

RerunNext ==
    \/ run_simulation_setup
    \/ sim_bar_start
    \/ sim_level
    \/ sim_bar_end
    \/ sim_finish
    \/ run_again

RerunSpec == RerunInit /\ [][RerunNext]_vars

---------------------------------------------------------------------------
(* Vocabulary of the properties.  A level step is one iteration of          *)
(* `for grid_price in grid_levels`; Level is the level it visits.  The      *)
(* rules are restated here from the specification, not taken from the       *)
(* operators above.                                                         *)

LevelStep == pc = "for_level" /\ j < Len(grid_levels) /\ j' = j + 1

Level == grid_levels[j + 1]

\* |close - level| / level < 0.001
WithinTolerance == Abs(current_price - Level) * 1000 < Level

\* order_size / level
LevelAmount == params.order_size \div Level

\* the fee rate the code charges in this run
ChargedFeeRate == IF mode = "simulation" THEN SimFeeRate ELSE params.fee_rate

BuyIntent == WithinTolerance /\ current_price <= Level

SellIntent == WithinTolerance /\ current_price > Level /\ portfolio.positions > 0

\* a buy whose cost exceeds cash, or a sell whose amount exceeds position
RejectedFill ==
    /\ LevelStep
    /\ \/ /\ BuyIntent
          /\ portfolio.cash < Level * LevelAmount
                                + PerMille(Level * LevelAmount, ChargedFeeRate)
       \/ /\ SellIntent
          /\ portfolio.positions < LevelAmount

\* the record a level step creates: an order in the simulation, a trade in
\* the backtest (which keeps no order log)
RecordCreated ==
    IF mode = "simulation" THEN Len(orders') = Len(orders) + 1
    ELSE Len(trades') = Len(trades) + 1

SellTrades == {k \in 1..Len(trades) : trades[k].side = "sell"}

BuyTrades == {k \in 1..Len(trades) : trades[k].side = "buy"}

---------------------------------------------------------------------------
(* C1: in every reachable state of a simulation or of a backtest, cash >= 0 *)
(* and position >= 0.                                                       *)
C1_PortfolioSolvent ==
    portfolio.cash >= 0 /\ portfolio.positions >= 0

\* sells have brought the position back to exactly zero
C1_Witness ==
    /\ SellTrades # {}
    /\ BuyTrades # {}
    /\ portfolio.positions = 0
    /\ portfolio.cash > 0

(* C2: a rejected fill leaves cash, position and total_value as they were.  *)
C2_RejectedFillChangesNothing ==
    [][RejectedFill => portfolio' = portfolio]_vars

(* C3: in the simulation, an order whose fill the ledger cannot apply is    *)
(* logged with status 'rejected' and no trade is appended for it.           *)
C3_RejectedOrderLogged ==
    [][(RejectedFill /\ mode = "simulation")
          => /\ Len(orders') = Len(orders) + 1
             /\ orders'[Len(orders')].status = "rejected"
             /\ trades' = trades]_vars

(* C4: every recorded sell trade has amount exactly order_size / level: a   *)
(* sell is never applied for a smaller amount.                              *)
C4_SellsAreWhole ==
    \A k \in SellTrades : trades[k].amount = params.order_size \div trades[k].price

(* C5: an applied buy of amount a at price p takes p*a*(1+fee_rate) from    *)
(* cash and adds a to the position, an applied sell adds p*a*(1-fee_rate)   *)
(* to cash and takes a from the position, fee_rate being the run's input.   *)
C5_FillUsesRunFeeRate ==
    [][(LevelStep /\ portfolio'.positions # portfolio.positions)
          => LET t == trades'[Len(trades')]
                 gross == t.price * t.amount
             IN  IF t.side = "buy"
                 THEN /\ portfolio'.cash = portfolio.cash - PerMille(gross, 1000 + params.fee_rate)
                      /\ portfolio'.positions = portfolio.positions + t.amount
                 ELSE /\ portfolio'.cash = portfolio.cash + PerMille(gross, 1000 - params.fee_rate)
                      /\ portfolio'.positions = portfolio.positions - t.amount]_vars

(* C6, as claimed: a level step creates an order if and only if the level   *)
(* is touched.                                                              *)
C6_OrderIffTouched ==
    [][LevelStep => (RecordCreated <=> WithinTolerance)]_vars

(* C6, amended: an order (in the backtest: a trade) is created at a level   *)
(* only if the level is touched, strictly within 0.001; a touched level     *)
(* creates one except when close > level with position = 0 and, in the      *)
(* backtest, except when close <= level with cash below the cost.           *)
C6_OrderOnlyIfTouched ==
    [][LevelStep
          => (RecordCreated <=>
                \/ SellIntent
                \/ /\ BuyIntent
                   /\ mode = "backtest"
                        => portfolio.cash >= PerMille(Level * LevelAmount,
                                                      1000 + params.fee_rate))]_vars

\* the second bar of a simulation has visited a level at relative distance
\* exactly 0.001 and the order log still holds the first bar's order only
C6_Witness ==
    /\ mode = "simulation"
    /\ params.grid_type = "linear"
    /\ pc = "for_level"
    /\ i = 1
    /\ j = 1
    /\ Abs(current_price - grid_levels[1]) * 1000 = grid_levels[1]
    /\ Len(orders) = 1

\* the record a level step has created
NewRecord == IF mode = "simulation" THEN orders'[Len(orders')] ELSE trades'[Len(trades')]

(* C7: at a touched level, close <= level creates a buy and nothing else    *)
(* (in the simulation always); close > level creates a sell when            *)
(* position > 0 and no order at all when position = 0.                      *)
C7_DirectionalRule ==
    [][(LevelStep /\ WithinTolerance)
          => IF current_price <= Level
             THEN /\ mode = "simulation" => RecordCreated
                  /\ RecordCreated => NewRecord.side = "buy" /\ NewRecord.price = Level
             ELSE IF portfolio.positions > 0
             THEN RecordCreated /\ NewRecord.side = "sell" /\ NewRecord.price = Level
             ELSE orders' = orders /\ trades' = trades]_vars

\* the second bar of a simulation closes above a touched level while a
\* position is held, and the order it created there is a sell
C7_Witness ==
    /\ mode = "simulation"
    /\ params.grid_type = "linear"
    /\ pc = "for_level"
    /\ i = 1
    /\ j = 1
    /\ current_price > grid_levels[1]
    /\ Len(orders) = 2
    /\ orders[2].side = "sell"
    /\ orders[2].price = grid_levels[1]

(* C8: once k bars are consumed the equity curve holds exactly k samples,   *)
(* sample n carries the timestamp and close of bar n, and no sample is ever *)
(* removed or rewritten.                                                    *)
C8_EquityCurveTracksBars ==
    /\ [](pc # "idle"
            => /\ Len(equity_curve) = i
               /\ \A n \in 1..Len(equity_curve) :
                     /\ equity_curve[n].timestamp = data[n].timestamp
                     /\ equity_curve[n].price = data[n].close)
    /\ [][pc # "idle"
            => /\ Len(equity_curve') >= Len(equity_curve)
               /\ SubSeq(equity_curve', 1, Len(equity_curve)) = equity_curve]_vars

C8_Witness ==
    /\ pc = "done"
    /\ Len(equity_curve) = MaxBars
    /\ equity_curve[1].price # equity_curve[2].price
    /\ trades # <<>>

(* C9: at every bar of a run the grid levels are the sequence computed at   *)
(* setup from the first bar.                                                *)
C9_GridFixedAtSetup ==
    pc = "for_level"
       => grid_levels = calculate_grid(<<>>,
                                       lower_of(data[1].close, params.grid_range_pct),
                                       upper_of(data[1].close, params.grid_range_pct),
                                       params.num_grids, params.grid_type)

(* C10, as claimed: a completed run has processed every bar of its source.  *)
C10_RunProcessesEveryBar ==
    pc = "done" => Len(results.equity_curve) = Len(data)

\* the bars a run is to process: all of them, but in the simulation no more
\* than duration_hours * 60
BarsToProcess ==
    IF mode = "simulation" /\ Len(data) > duration_hours * 60
    THEN duration_hours * 60
    ELSE Len(data)

(* C10, amended: a run always terminates in the completed state, having     *)
(* processed, once and in order, every bar of the source, or in the         *)
(* simulation the first duration_hours * 60 bars when the source is longer, *)
(* and returns its report.                                                  *)
C10_RunCompletes ==
    /\ <>(pc = "done")
    /\ [](pc = "done"
            => /\ Len(results.equity_curve) = BarsToProcess
               /\ \A n \in 1..BarsToProcess :
                     results.equity_curve[n].timestamp = data[n].timestamp)

C10_Witness ==
    /\ pc = "done"
    /\ Len(data) > duration_hours * 60
    /\ Len(results.equity_curve) = duration_hours * 60

---------------------------------------------------------------------------
(* C11-C20 *)

\* an execution of run_strategy that has begun and has not returned
Executing(l) == l.pc \in {"for_bar", "for_level"}

ActiveRuns ==
    Cardinality({k \in 1..Len(threads) : Executing(threads[k])})
        + (IF Executing(Locals) THEN 1 ELSE 0)

\* C11: at no time are two executions of run_strategy active on the same
\* GridTradingSystem instance, also when the strategy is activated more than
\* once before the first run ends.
C11_SingleActiveRun == ActiveRuns <= 1

\* C12: calculate_grid called with a grid_type other than linear, geometric
\* or fibonacci reports an error to the caller; it returns no grid, neither
\* the stored nor the empty one.
C12_UnsupportedTypeIsError ==
    (call.outcome # "none" /\ call.grid_type \notin {"linear", "geometric", "fibonacci"})
        => call.outcome = "error"

\* what makes a configuration invalid: fewer than two levels, a range that
\* puts lower at or above upper, a spacing mode that is not supported
InvalidConfiguration ==
    \/ params.num_grids < 2
    \/ params.grid_range_pct.num <= 0
    \/ params.grid_type \notin {"linear", "geometric", "fibonacci"}

\* C13: a run started with an invalid configuration processes no bar: the
\* equity curve, the order log and the trade log stay empty and the
\* portfolio stays as constructed.
C13_InvalidConfigFailsFast ==
    InvalidConfiguration =>
        /\ equity_curve = <<>>
        /\ orders = <<>>
        /\ trades = <<>>
        /\ portfolio = [cash |-> Money(10000), positions |-> 0, total_value |-> Money(10000)]

\* a direct call of calculate_grid in mode t has returned
Returned(t) == call.outcome = "returned" /\ call.grid_type = t

\* the difference between level k + 1 and level k of the returned grid
Gap(k) == call.returned[k + 1] - call.returned[k]

\* C14: for every mode and all inputs with count >= 2 and 0 < lower_bound <
\* upper_bound the generated grid has exactly count levels, never decreases
\* from one level to the next, begins at lower_bound and ends at upper_bound.
C14_GridShape ==
    (\E t \in {"linear", "geometric", "fibonacci"} : Returned(t)) =>
        /\ Len(call.returned) = call.num_grids
        /\ \A k \in 1..(Len(call.returned) - 1) : call.returned[k] <= call.returned[k + 1]
        /\ call.returned[1] = call.lower_bound
        /\ call.returned[Len(call.returned)] = call.upper_bound
        /\ call.returned[1] < call.returned[Len(call.returned)]
        /\ call.returned = grid_levels

C14_Witness ==
    /\ Returned("geometric")
    /\ call.num_grids = 5
    /\ call.returned = <<Fine(1), Fine(2), Fine(4), Fine(8), Fine(16)>>

\* C15: under linear mode every two consecutive levels differ by
\* (upper_bound - lower_bound) / (count - 1); 5 levels between 90 and 110 are
\* [90, 95, 100, 105, 110].
C15_LinearSpacing ==
    Returned("linear") =>
        /\ \A k \in 1..(Len(call.returned) - 1) :
              Gap(k) * (call.num_grids - 1) = call.upper_bound - call.lower_bound
        /\ (call.lower_bound = Fine(90) /\ call.upper_bound = Fine(110) /\ call.num_grids = 5)
              => call.returned = <<Fine(90), Fine(95), Fine(100), Fine(105), Fine(110)>>

C15_Witness ==
    /\ Returned("linear")
    /\ call.lower_bound = Fine(90)
    /\ call.upper_bound = Fine(110)
    /\ call.num_grids = 5
    /\ Gap(1) = Fine(5)

\* the sequence 0, 1, 1, 2, 3, 5, ...
RECURSIVE FibNumber(_)
FibNumber(k) == IF k <= 1 THEN 0 ELSE IF k = 2 THEN 1 ELSE FibNumber(k - 1) + FibNumber(k - 2)

\* C16 as stated: under fibonacci mode no gap is smaller than the gap below it.
C16_FibonacciGapsIncrease ==
    Returned("fibonacci") =>
        \A k \in 2..(Len(call.returned) - 1) : Gap(k) >= Gap(k - 1)

\* C16: under fibonacci mode level k is lower_bound + (fib_k / max(fib)) *
\* (upper_bound - lower_bound) for the sequence 0, 1, 1, 2, 3, 5, ...; for
\* count = 2 the grid is [lower_bound, upper_bound]; from count = 3 on the
\* second and the third level coincide, so the spacing is not uniform, and
\* from the third gap on no gap is smaller than the gap below it.
C16_FibonacciLevels ==
    Returned("fibonacci") =>
        LET n == Len(call.returned)
            max_fib == FibNumber(n)
        IN  /\ \A k \in 1..n :
                  (call.returned[k] - call.lower_bound) * max_fib
                      = FibNumber(k) * (call.upper_bound - call.lower_bound)
            /\ call.num_grids = 2 => call.returned = <<call.lower_bound, call.upper_bound>>
            /\ call.num_grids >= 3 => Gap(1) > 0 /\ Gap(2) = 0
            /\ \A k \in 3..(n - 1) : Gap(k) >= Gap(k - 1)

C16_Witness ==
    /\ Returned("fibonacci")
    /\ call.num_grids = 6
    /\ Gap(5) > Gap(4)
    /\ Gap(2) < Gap(1)

\* the levels of the grid, counted by their place in it, that the close of
\* the current bar touches
TouchedLevels ==
    {k \in 1..Len(grid_levels) :
        Abs(current_price - grid_levels[k]) * 1000 < grid_levels[k]}

\* C17: each touched level yields at most one order per bar.  The levels of
\* a bar are visited one after the other, each once; a visit creates at most
\* one order and creates one only if the level is touched; and no order in
\* the log is open, in particular none when the next bar begins.
C17_OneOrderPerTouchedLevel ==
    [][ /\ (pc = "for_level" /\ pc' = "for_level") => (i' = i /\ j' = j + 1)
        /\ Len(orders') \in {Len(orders), Len(orders) + 1}
        /\ SubSeq(orders', 1, Len(orders)) = orders
        /\ Len(orders') > Len(orders) => (LevelStep /\ (j + 1) \in TouchedLevels)
        /\ \A k \in 1..Len(orders') : orders'[k].status # "open"
      ]_vars

\* the first bar of a run over a grid with three touched levels: the lowest
\* produced no order (a sell intent with no position), the other two one each
C17_Witness ==
    /\ mode = "simulation"
    /\ pc = "for_level"
    /\ i = 0
    /\ j = Len(grid_levels)
    /\ Cardinality(TouchedLevels) = 3
    /\ Len(orders) = 2
    /\ \A k \in 1..Len(orders) : orders[k].status = "filled"

\* the log a level step writes to: orders in the simulation, trades in the backtest
RecordLog == IF mode = "simulation" THEN orders ELSE trades

\* C18: the levels touched in one bar are processed in ascending price
\* order.  The grid is ascending and the levels of a bar are visited from
\* the first to the last, each record being created at the level visited,
\* so the records of one bar (shown outright for the first bar, whose
\* records are the whole log) have non-decreasing prices; and a level is
\* matched against the portfolio as the lower levels of the bar left it: a
\* buy is applied exactly if the cash of that moment covers its cost.
C18_AscendingWithinBar ==
    /\ [](\A k \in 1..(Len(grid_levels) - 1) : grid_levels[k] <= grid_levels[k + 1])
    /\ [](i = 0 => \A k \in 1..(Len(RecordLog) - 1) :
                       RecordLog[k].price <= RecordLog[k + 1].price)
    /\ [][ /\ (pc = "for_level" /\ pc' = "for_level") => (i' = i /\ j' = j + 1)
           /\ (LevelStep /\ RecordCreated) => NewRecord.price = Level
           /\ (LevelStep /\ BuyIntent) =>
                 (portfolio'.positions > portfolio.positions
                    <=> portfolio.cash >= Level * LevelAmount
                                            + PerMille(Level * LevelAmount, ChargedFeeRate))
         ]_vars

\* the third bar of a simulation touches both levels: the sell at the lower
\* level is filled first, and only its revenue lets the cash cover the buy
\* at the upper level, which is filled too
C18_Witness ==
    /\ mode = "simulation"
    /\ pc = "for_level"
    /\ i = 2
    /\ j = 2
    /\ Len(orders) = 5
    /\ orders[4].side = "sell"
    /\ orders[5].side = "buy"
    /\ orders[4].price < orders[5].price
    /\ portfolio.positions = 3 * orders[5].amount - orders[4].amount
    /\ portfolio.cash < orders[4].price * orders[4].amount - trades[4].fee

\* the sum of the prices of the buy trades among the first n trades
RECURSIVE BuyPriceSum(_)
BuyPriceSum(n) ==
    IF n = 0 THEN 0
    ELSE BuyPriceSum(n - 1) + (IF trades[n].side = "buy" THEN trades[n].price ELSE 0)

\* sell trade k carries the profit (price - mean of the buy prices before it) * amount
ProfitOnMeanBuyPrice(k) ==
    LET buys == {m \in 1..(k - 1) : trades[m].side = "buy"}
        count == Cardinality(buys)
    IN  /\ "profit" \in DOMAIN trades[k]
        /\ count > 0
        /\ trades[k].profit.num * count
              = (trades[k].price * count - BuyPriceSum(k - 1)) * trades[k].amount
                    * trades[k].profit.den

\* C19: the realized profit recorded on every sell trade equals (sell price
\* - arithmetic mean of the prices of all buy trades recorded so far in the
\* run, unweighted by amount) * sell amount.
C19_SellProfitOnMeanBuyPrice ==
    \A k \in SellTrades : ProfitOnMeanBuyPrice(k)

\* the step that closes bar i: it appends the bar's equity sample
BarEnd == Len(equity_curve') = Len(equity_curve) + 1

\* C20: mark-to-market at price p sets total_value = cash + position * p and
\* leaves cash and position unchanged: at the end of a bar of the simulation
\* p is the close, after a fill it is the price of the order.  The equity
\* sample of every bar is taken after all levels of the bar are visited and
\* its value is cash + position * close of that bar.
C20_MarkToMarket ==
    [][ /\ BarEnd =>
              /\ j = Len(grid_levels)
              /\ portfolio'.cash = portfolio.cash
              /\ portfolio'.positions = portfolio.positions
              /\ equity_curve'[Len(equity_curve')].value
                    = portfolio.cash + portfolio.positions * data[i + 1].close
              /\ mode = "simulation"
                    => portfolio'.total_value
                          = portfolio.cash + portfolio.positions * data[i + 1].close
        /\ (mode = "simulation" /\ LevelStep /\ RecordCreated)
              => portfolio'.total_value = portfolio'.cash + portfolio'.positions * Level
      ]_vars

\* a bar of the simulation has ended with a position held, bought at a price
\* that is not the close
C20_Witness ==
    /\ mode = "simulation"
    /\ pc = "for_bar"
    /\ i = 2
    /\ portfolio.positions > 0
    /\ orders[Len(orders)].price # equity_curve[2].price
    /\ equity_curve[2].value = portfolio.cash + portfolio.positions * equity_curve[2].price
    /\ equity_curve[2].value # portfolio.cash + portfolio.positions * orders[Len(orders)].price
    /\ equity_curve[2].value # equity_curve[1].value

---------------------------------------------------------------------------
(* C21-C30 *)

\* C21: order ids are sequence numbers: the k-th order created on a
\* GridTradingSystem has id k, so no two orders of the log share an id.
C21_OrderIdsAreSequenceNumbers ==
    /\ \A k \in 1..Len(orders) : orders[k].id = k
    /\ \A k, m \in 1..Len(orders) : orders[k].id = orders[m].id => k = m

\* four orders are logged, two of them in the same bar
C21_Witness ==
    /\ mode = "simulation"
    /\ Len(orders) = 4
    /\ orders[4].id = 4
    /\ orders[1].id = 1
    /\ orders[3].price # orders[4].price
    /\ pc = "for_level"
    /\ i = 2

\* the metrics calculation has returned its report
Reported == pc = "done" /\ data = <<>>

\* the keys under which the two reports hold the same metric
MaxDrawdownKey == IF mode = "simulation" THEN "max_drawdown" ELSE "max_drawdown_pct"

WinRateKey == IF mode = "simulation" THEN "win_rate" ELSE "win_rate_pct"

TotalReturnKey == IF mode = "simulation" THEN "total_return" ELSE "total_return_pct"

\* max(value[1..t])
RunningMax(t) ==
    CHOOSE peak \in {equity_curve[k].value : k \in 1..t} :
        \A k \in 1..t : equity_curve[k].value <= peak

\* the ratio r is (value[t] - max(value[1..t])) / max(value[1..t]) * 100
IsDrawdownAt(r, t) ==
    r.num * RunningMax(t) = (equity_curve[t].value - RunningMax(t)) * 100 * r.den

\* the ratio r is at most the drawdown at t
AtMostDrawdownAt(r, t) ==
    r.num * RunningMax(t) <= (equity_curve[t].value - RunningMax(t)) * 100 * r.den

\* C22: for every non-empty equity curve of positive values max_drawdown_pct
\* is the minimum over t of (value[t] - max(value[0..t])) / max(value[0..t])
\* * 100 and is <= 0; for [10000, 10500, 9800, 11000] it is
\* (9800 - 10500) / 10500 * 100.
C22_MaxDrawdown ==
    (Reported /\ equity_curve # <<>>) =>
        /\ MaxDrawdownKey \in DOMAIN metrics
        /\ LET dd == metrics[MaxDrawdownKey]
           IN  /\ dd.den > 0
               /\ dd.num <= 0
               /\ \A t \in 1..Len(equity_curve) : AtMostDrawdownAt(dd, t)
               /\ \E t \in 1..Len(equity_curve) : IsDrawdownAt(dd, t)
               /\ sample_values(equity_curve) = <<10000, 10500, 9800, 11000>>
                     => dd.num * 10500 = (9800 - 10500) * 100 * dd.den

\* the trades with a defined realized profit: the sells that carry one
TradesWithProfit ==
    {k \in 1..Len(trades) : trades[k].side = "sell" /\ "profit" \in DOMAIN trades[k]}

WinningTrades == {k \in TradesWithProfit : trades[k].profit.num > 0}

LosingTrades == {k \in TradesWithProfit : trades[k].profit.num < 0}

\* C23: win_rate_pct is 100 * (number of trades with realized_profit > 0) /
\* (number of trades with a defined realized_profit); the buy fills are not
\* counted in the denominator.
C23_WinRateOverTradesWithProfit ==
    (Reported /\ WinRateKey \in DOMAIN metrics /\ TradesWithProfit # {}) =>
        metrics[WinRateKey].num * Cardinality(TradesWithProfit)
            = 100 * Cardinality(WinningTrades) * metrics[WinRateKey].den

\* the sum of the profits of the trades of the set S, as a ratio
RECURSIVE ProfitTotal(_)
ProfitTotal(S) ==
    IF S = {} THEN [num |-> 0, den |-> 1]
    ELSE LET k == CHOOSE x \in S : TRUE
             rest == ProfitTotal(S \ {k})
             p == trades[k].profit
         IN  [num |-> rest.num * p.den + p.num * rest.den, den |-> rest.den * p.den]

\* C24: profit_factor is sum(positive profits) / |sum(negative profits)|
\* when there is a losing trade, and +infinity exactly when there is no
\* losing trade and at least one winning trade.
C24_ProfitFactor ==
    (Reported /\ "profit_factor" \in DOMAIN metrics) =>
        LET pf == metrics.profit_factor
            gain == ProfitTotal(WinningTrades)
            loss == ProfitTotal(LosingTrades)
        IN  /\ LosingTrades # {}
                  => /\ pf.den > 0
                     /\ pf.num * gain.den * (-loss.num) = gain.num * loss.den * pf.den
            /\ (pf.den = 0 /\ pf.num > 0) <=> (LosingTrades = {} /\ WinningTrades # {})

\* C25: for any equity curve, also an empty one or one of a single sample,
\* and an empty trade list the report holds profit_factor = 0, win_rate_pct
\* = 0, total_trades = 0, and total_return_pct = 0 when there are fewer than
\* two samples.
C25_ZeroedReportWithoutTrades ==
    (Reported /\ trades = <<>>) =>
        /\ {"profit_factor", "total_trades", WinRateKey, TotalReturnKey} \subseteq DOMAIN metrics
        /\ metrics.profit_factor.num = 0
        /\ metrics[WinRateKey].num = 0
        /\ metrics.total_trades = 0
        /\ Len(equity_curve) < 2 => metrics[TotalReturnKey].num = 0

\* a step that generates the series anew with the arguments of the series
\* in place: the simulation always generates with its defaults, a test
\* series is asked for by its first and last date
ReplayedWithSameArguments ==
    /\ now' = now
    /\ data # <<>>
    /\ mode = "backtest"
          => /\ data'[1].timestamp = data[1].timestamp
             /\ data'[Len(data')].timestamp = data[Len(data)].timestamp

\* C26: replaying the synthetic data source with the same seed and
\* arguments yields the same bars: the same number, and bar k with the same
\* timestamp, open, high, low, close and volume.
C26_ReplayIsIdentical ==
    [][ReplayedWithSameArguments =>
           /\ Len(data') = Len(data)
           /\ \A k \in 1..Len(data) :
                 /\ data'[k].timestamp = data[k].timestamp
                 /\ data'[k].open = data[k].open
                 /\ data'[k].high = data[k].high
                 /\ data'[k].low = data[k].low
                 /\ data'[k].close = data[k].close
                 /\ data'[k].volume = data[k].volume
      ]_vars

\* the calls of backtest_grid_strategy that have returned
ReturnedCalls ==
    {c \in {threads[k] : k \in 1..Len(threads)} \cup {Frame} : c.pc = "done"}

\* C27: independent backtests share no mutable state.  Every call starts
\* from cash = initial_capital, position = 0 and empty trade and equity
\* logs; the calls that are not executing keep their locals; and two calls
\* with the same parameters over the same data return the same result,
\* whether a call ran alone, after another or interleaved with it.
C27_BacktestsAreIndependent ==
    /\ [](\A c, d \in ReturnedCalls : c.params = d.params => c.results = d.results)
    /\ [][ /\ (pc = "idle" /\ pc' # "idle" /\ threads' = threads)
                 => /\ portfolio' = [cash |-> Money(10000), positions |-> 0,
                                     total_value |-> Money(10000)]
                    /\ trades' = <<>>
                    /\ equity_curve' = <<>>
           /\ Len(threads') = Len(threads) =>
                 \A k \in 1..Len(threads) :
                     threads'[k] = threads[k] \/ (threads'[k] = Frame /\ threads[k] = Frame')
         ]_vars

\* two calls with the same parameters have returned the same result with
\* trades in it, and the second was started while the first was in its loop
C27_Witness ==
    /\ Len(threads) = 1
    /\ pc = "done"
    /\ threads[1].pc = "done"
    /\ threads[1].params = params
    /\ threads[1].results = results
    /\ Len(results.trades) >= 2
    /\ Len(results.equity_curve) = 2

\* the backtest records a sell trade in this step
SellRecorded ==
    /\ mode = "backtest"
    /\ Len(trades') = Len(trades) + 1
    /\ trades'[Len(trades')].side = "sell"

\* C28: in backtest_grid_strategy a sell trade is recorded only when the
\* trade log already holds a buy trade, so avg_buy_price is a mean over a
\* non-empty set and the fallback avg_buy_price = grid_price is not taken:
\* every sell trade of the log has a buy trade before it, and was made from
\* a position that a buy had opened.
C28_SellFollowsBuy ==
    /\ [](mode = "backtest" => \A k \in SellTrades : \E m \in BuyTrades : m < k)
    /\ [][SellRecorded => (BuyTrades # {} /\ portfolio.positions > 0)]_vars

\* a sell trade whose average buy price is the mean of two buy prices
C28_Witness ==
    /\ mode = "backtest"
    /\ \E k \in SellTrades :
           /\ Cardinality({m \in BuyTrades : m < k}) = 2
           /\ trades[k].profit.den = 2
           /\ trades[k].amount > 0

\* a level step applies a fill: the position changes
AppliedFill == LevelStep /\ portfolio'.positions # portfolio.positions

\* the amount of the fill a level step applies
FilledAmount == Abs(portfolio'.positions - portfolio.positions)

\* cash + position * p, for the portfolio pf
MarkedAt(pf, p) == pf.cash + pf.positions * p

\* C29: for every applied fill at price p, the portfolio value marked at p
\* (cash + position * p) after the fill is the value before the fill less
\* the fee p * amount * fee_rate of the run's fee_rate, and no fill
\* increases the value marked at its own price.
C29_FillCostsTheFee ==
    [][AppliedFill
          => /\ MarkedAt(portfolio', Level)
                  = MarkedAt(portfolio, Level)
                      - PerMille(Level * FilledAmount, params.fee_rate)
             /\ MarkedAt(portfolio', Level) <= MarkedAt(portfolio, Level)]_vars

\* the sequence s is the beginning of the sequence t
IsPrefix(s, t) == Len(s) <= Len(t) /\ \A k \in 1..Len(s) : s[k] = t[k]

\* what the runs before the present one returned
EarlierRuns == {threads[k].results : k \in 1..Len(threads)}

\* C30: run_simulation never resets the instance's portfolio, order log or
\* trade log.  Beginning a run changes none of them, so a second run starts
\* from the cash and position the first run left; the order ids continue
\* the numbering (order k of the log has id k); and the trades a run
\* returns begin with all the trades every earlier run returned.
C30_RunsAccumulate ==
    /\ [](\A k \in 1..Len(orders) : orders[k].id = k)
    /\ [](\A r \in EarlierRuns :
             /\ IsPrefix(r.trades, trades)
             /\ pc = "done" => IsPrefix(r.trades, results.trades))
    /\ [][(pc = "done" \/ pc = "idle") => UNCHANGED <<portfolio, orders, trades>>]_vars

\* a second run has returned: it began with the position the first run had
\* bought, and its first order took the id after the first run's last
C30_Witness ==
    /\ Len(threads) = 1
    /\ pc = "done"
    /\ Len(threads[1].results.trades) >= 1
    /\ Len(results.trades) > Len(threads[1].results.trades)
    /\ orders[Len(threads[1].results.trades) + 1].id = Len(threads[1].results.trades) + 1
    /\ \E k \in 1..Len(results.trades) :
           k > Len(threads[1].results.trades) /\ results.trades[k].side = "sell"

====
